---- MODULE Spec2Model ----
(***************************************************************************)
(* sql-parser-demo (src/main.rs): five extraction functions turn a parsed  *)
(* SQL statement (SELECT, INSERT, UPDATE, DELETE, CREATE TABLE) into one   *)
(* SqlStruct, and Display renders a SqlStruct as text.                     *)
(*                                                                         *)
(* The sqlparser crate is external: a call's input is what                 *)
(* Parser::parse_sql returns, either a ParserError or a vector of          *)
(* statements.  An Option is a sequence of length 0 or 1, a Vec is a       *)
(* sequence, a HashMap is a function on its key set, a String that is only *)
(* copied is a TLA+ string, and a numeric token (which the code parses) is *)
(* a sequence of one-character strings.                                    *)
(***************************************************************************)
EXTENDS Integers, Sequences, FiniteSets, TLC

VARIABLES
    pc,      \* "call" before the call of a parser function, "returned" after it
    func,    \* the key of the function in parser_func_map
    input,   \* what Parser::parse_sql made of the function's statement
    result,  \* what the call came to
    out      \* the texts printed of the returned model

vars == <<pc, func, input, result, out>>

(***************************************************************************)
(* Bounds of the checked inputs.                                           *)
(***************************************************************************)
\* list items plus optional clauses of a SELECT, tables of a DELETE
MaxNodes == 3
\* assignments of an UPDATE
MaxAssign == 2
\* columns of an INSERT or a CREATE TABLE, and value expressions over all
\* the rows of an INSERT
MaxCols == 3

Names == {"A", "B"}

None == <<>>
Some(x) == <<x>>

SeqUpTo(S, n) == UNION {[1..k -> S] : k \in 0..n}

(***************************************************************************)
(* Integer parsing: str::parse::<i32>() and str::parse::<u64>().           *)
(***************************************************************************)
DigitChars == <<"0", "1", "2", "3", "4", "5", "6", "7", "8", "9">>

IsDigit(c) == \E i \in 1..10 : DigitChars[i] = c

DigitValue(c) == (CHOOSE i \in 1..10 : DigitChars[i] = c) - 1

I32_MAX == 2147483647

\* One step per character, as the library does: a character that is no
\* digit is an error, and so is a product or a sum that leaves the type.
\* (A numeric token of the tokenizer carries no sign.)
RECURSIVE ParseI32From(_, _, _)
ParseI32From(tok, i, acc) ==
    IF i > Len(tok) THEN [ok |-> TRUE, val |-> acc]
    ELSE IF ~IsDigit(tok[i]) THEN [ok |-> FALSE, val |-> 0]
    ELSE IF acc > I32_MAX \div 10 THEN [ok |-> FALSE, val |-> 0]
    ELSE IF DigitValue(tok[i]) > I32_MAX - acc * 10 THEN [ok |-> FALSE, val |-> 0]
    ELSE ParseI32From(tok, i + 1, acc * 10 + DigitValue(tok[i]))

\* ParseI32 with a sum that stays at i32::MAX where it would leave the type
RECURSIVE SaturatingI32From(_, _, _)
SaturatingI32From(tok, i, acc) ==
    IF i > Len(tok) THEN [ok |-> TRUE, val |-> acc]
    ELSE IF ~IsDigit(tok[i]) THEN [ok |-> FALSE, val |-> 0]
    ELSE IF acc > I32_MAX \div 10 THEN SaturatingI32From(tok, i + 1, I32_MAX)
    ELSE IF DigitValue(tok[i]) > I32_MAX - acc * 10
    THEN SaturatingI32From(tok, i + 1, I32_MAX)
    ELSE SaturatingI32From(tok, i + 1, acc * 10 + DigitValue(tok[i]))

ParseI32Saturating(tok) ==
    IF Len(tok) = 0 THEN [ok |-> FALSE, val |-> 0] ELSE SaturatingI32From(tok, 1, 0)

ParseI32(tok) ==
    IF Len(tok) = 0 THEN [ok |-> FALSE, val |-> 0] ELSE ParseI32From(tok, 1, 0)

\* u64::MAX = 18446744073709551615.  A u64 does not fit the integers of
\* the model checker, so a u64 is carried as its decimal digits without
\* leading zeros.
U64MaxDigits == <<1, 8, 4, 4, 6, 7, 4, 4, 0, 7, 3, 7, 0, 9, 5, 5, 1, 6, 1, 5>>

RECURSIVE StripZeros(_)
StripZeros(ds) ==
    IF Len(ds) > 1 /\ ds[1] = 0 THEN StripZeros(Tail(ds)) ELSE ds

\* ds > U64MaxDigits, both without leading zeros
ExceedsU64(ds) ==
    \/ Len(ds) > Len(U64MaxDigits)
    \/ /\ Len(ds) = Len(U64MaxDigits)
       /\ \E i \in 1..Len(ds) :
            /\ ds[i] > U64MaxDigits[i]
            /\ \A j \in 1..(i - 1) : ds[j] = U64MaxDigits[j]

ParseU64(tok) ==
    IF Len(tok) = 0 \/ \E i \in 1..Len(tok) : ~IsDigit(tok[i])
    THEN [ok |-> FALSE, val |-> <<>>]
    ELSE LET ds == StripZeros([i \in 1..Len(tok) |-> DigitValue(tok[i])])
         IN  IF ExceedsU64(ds) THEN [ok |-> FALSE, val |-> <<>>]
             ELSE [ok |-> TRUE, val |-> ds]

(***************************************************************************)
(* The model types.                                                        *)
(***************************************************************************)
TableInfo(index, schema, table, alias) ==
    [index |-> index, schema |-> schema, table |-> table, alias |-> alias]

MysqlNone == [t |-> "None"]
MysqlString(s) == [t |-> "String", s |-> s]
MysqlNumber(n) == [t |-> "Number", n |-> n]
MysqlBoolean(b) == [t |-> "Boolean", b |-> b]

EmptyMap == [k \in {} |-> MysqlNone]

\* HashMap::insert
MapInsert(m, k, v) == [x \in DOMAIN m \cup {k} |-> IF x = k THEN v ELSE m[x]]

\* SqlStruct::default()
DefaultSqlStruct ==
    [table_infos |-> <<>>, get_fields |-> <<>>, set_fields |-> EmptyMap,
     order_by_fields |-> EmptyMap, limit |-> None, offset |-> None,
     where_exist |-> FALSE]

\* What a call comes to: Ok(sql_struct), Err(error), or a panic that
\* unwinds out of main and ends the process.
Ok(s) == [outcome |-> "Ok", sql_struct |-> s]
Err == [outcome |-> "Err"]
Panic == [outcome |-> "Panic"]
NoResult == [outcome |-> "none"]

(***************************************************************************)
(* parse_select                                                            *)
(***************************************************************************)
\* GetFields without the branch of the aliased items
RECURSIVE GetFieldsUnaliased(_)
GetFieldsUnaliased(select_expr_vec) ==
    IF select_expr_vec = <<>> THEN <<>>
    ELSE LET select_item == Head(select_expr_vec)
             rest == GetFieldsUnaliased(Tail(select_expr_vec))
         IN  IF select_item.item = "UnnamedExpr" /\ select_item.expr.expr = "Identifier"
             THEN <<select_item.expr.value>> \o rest
             ELSE rest

\* The projection loop: the column name of every item that is a bare
\* identifier, unaliased or aliased.
RECURSIVE GetFields(_)
GetFields(select_expr_vec) ==
    IF select_expr_vec = <<>> THEN <<>>
    ELSE LET select_item == Head(select_expr_vec)
             rest == GetFields(Tail(select_expr_vec))
         IN  IF select_item.item = "UnnamedExpr"
             THEN IF select_item.expr.expr = "Identifier"
                  THEN <<select_item.expr.value>> \o rest ELSE rest
             ELSE IF select_item.item = "ExprWithAlias"
             THEN IF select_item.expr.expr = "Identifier"
                  THEN <<select_item.expr.value>> \o rest ELSE rest
             ELSE rest

\* The loop over the FROM list, from its index-th element on (index counts
\* from 0, as enumerate() does).  parse_delete runs the same loop.
RECURSIVE TableInfosFrom(_, _)
TableInfosFrom(table_expr_vec, index) ==
    IF index >= Len(table_expr_vec) THEN <<>>
    ELSE LET table_factor == table_expr_vec[index + 1].relation
             rest == TableInfosFrom(table_expr_vec, index + 1)
         IN  IF table_factor.factor = "Table"
             THEN LET table_ident_vec == table_factor.name
                      alias_name == IF table_factor.alias # None
                                    THEN table_factor.alias[1] ELSE ""
                  IN  IF Len(table_ident_vec) = 2
                      THEN <<TableInfo(index + 1, table_ident_vec[1],
                                       table_ident_vec[2], alias_name)>> \o rest
                      ELSE IF Len(table_ident_vec) = 1
                      THEN <<TableInfo(index + 1, "", table_ident_vec[1],
                                       alias_name)>> \o rest
                      ELSE rest
             ELSE rest

TableInfos(table_expr_vec) == TableInfosFrom(table_expr_vec, 0)

\* LIMIT and OFFSET: Some(n) of a numeric literal, unwrap() of the parse
\* panics; any other expression leaves the bound None.
Bound(expr_option) ==
    IF expr_option = None THEN [panic |-> FALSE, val |-> None]
    ELSE LET e == expr_option[1]
         IN  IF e.expr = "Value" /\ e.v.kind = "Number"
             THEN LET r == ParseI32(e.v.tok)
                  IN  IF r.ok THEN [panic |-> FALSE, val |-> Some(r.val)]
                      ELSE [panic |-> TRUE, val |-> None]
             ELSE [panic |-> FALSE, val |-> None]

\* The ORDER BY loop from its i-th item on, inserting into the map m.
RECURSIVE OrderByFields(_, _, _)
OrderByFields(order_by, i, m) ==
    IF i > Len(order_by) THEN m
    ELSE LET order_item == order_by[i]
         IN  IF order_item.expr.expr = "Identifier"
             THEN LET order_value == IF order_item.asc # None
                                     THEN order_item.asc[1] ELSE FALSE
                  IN  OrderByFields(order_by, i + 1,
                                    MapInsert(m, order_item.expr.value, order_value))
             ELSE OrderByFields(order_by, i + 1, m)

SelectWhereExist(select) == select.selection # None

SelectResult(parsed) ==
    IF ~parsed.ok THEN Err
    ELSE IF parsed.statements = <<>> THEN Panic
    ELSE LET statement == parsed.statements[1]
         IN  IF statement.stmt # "Query" THEN Ok(DefaultSqlStruct)
             ELSE LET query == statement.query
                      s1 == IF query.body.set = "Select"
                            THEN [DefaultSqlStruct EXCEPT
                                    !.get_fields = GetFields(query.body.projection),
                                    !.table_infos = TableInfos(query.body.from),
                                    !.where_exist = SelectWhereExist(query.body)]
                            ELSE DefaultSqlStruct
                      lim == Bound(query.limit)
                      off == Bound(IF query.offset = None THEN None
                                   ELSE Some(query.offset[1].value))
                  IN  IF lim.panic THEN Panic
                      ELSE IF off.panic THEN Panic
                      ELSE Ok([s1 EXCEPT
                                 !.limit = lim.val,
                                 !.offset = off.val,
                                 !.order_by_fields =
                                     OrderByFields(query.order_by, 1, EmptyMap)])

(***************************************************************************)
(* parse_insert, parse_update, parse_delete, parse_create                  *)
(***************************************************************************)
\* The table of an INSERT, UPDATE or CREATE TABLE: the TableInfo is built
\* with ..Default::default(), which leaves index 0 and alias "".
TargetTable(table_ident_vec) ==
    IF Len(table_ident_vec) = 2
    THEN <<TableInfo(0, table_ident_vec[1], table_ident_vec[2], "")>>
    ELSE IF Len(table_ident_vec) = 1
    THEN <<TableInfo(0, "", table_ident_vec[1], "")>>
    ELSE <<>>

\* for column in columns { set_fields.insert(column, MysqlValue::None) }
RECURSIVE InsertColumns(_, _, _)
InsertColumns(columns, i, m) ==
    IF i > Len(columns) THEN m
    ELSE InsertColumns(columns, i + 1, MapInsert(m, columns[i], MysqlNone))

\* One value expression of a row.  st is the loop state: the map, the
\* insert_field_index (counting from 0) and whether an unwrap() panicked.
\* Only a recognized literal looks up a field name and advances the index.
InsertItem(item, insert_field_name_vec, st) ==
    IF st.panic THEN st
    ELSE IF item.expr # "Value" THEN st
    ELSE IF item.v.kind \notin {"Number", "SingleQuotedString", "Boolean"} THEN st
    ELSE IF st.index >= Len(insert_field_name_vec) THEN [st EXCEPT !.panic = TRUE]
    ELSE LET field_name == insert_field_name_vec[st.index + 1]
         IN  IF item.v.kind = "Number"
             THEN LET r == ParseU64(item.v.tok)
                  IN  IF r.ok
                      THEN [st EXCEPT !.m = MapInsert(@, field_name, MysqlNumber(r.val)),
                                      !.index = @ + 1]
                      ELSE [st EXCEPT !.panic = TRUE]
             ELSE IF item.v.kind = "SingleQuotedString"
             THEN [st EXCEPT !.m = MapInsert(@, field_name, MysqlString(item.v.s)),
                             !.index = @ + 1]
             ELSE [st EXCEPT !.m = MapInsert(@, field_name, MysqlBoolean(item.v.b)),
                             !.index = @ + 1]

RECURSIVE InsertRow(_, _, _, _)
InsertRow(row, i, insert_field_name_vec, st) ==
    IF i > Len(row) THEN st
    ELSE InsertRow(row, i + 1, insert_field_name_vec,
                   InsertItem(row[i], insert_field_name_vec, st))

RECURSIVE InsertRows(_, _, _, _)
InsertRows(rows, r, insert_field_name_vec, st) ==
    IF r > Len(rows) THEN st
    ELSE InsertRows(rows, r + 1, insert_field_name_vec,
                    InsertRow(rows[r], 1, insert_field_name_vec, st))

InsertResult(parsed) ==
    IF ~parsed.ok THEN Err
    ELSE IF parsed.statements = <<>> THEN Panic
    ELSE LET statement == parsed.statements[1]
         IN  IF statement.stmt # "Insert" THEN Ok(DefaultSqlStruct)
             ELSE LET st0 == [m |-> InsertColumns(statement.columns, 1, EmptyMap),
                              index |-> 0, panic |-> FALSE]
                      st == IF statement.source.body.set = "Values"
                            THEN InsertRows(statement.source.body.rows, 1,
                                            statement.columns, st0)
                            ELSE st0
                  IN  IF st.panic THEN Panic
                      ELSE Ok([DefaultSqlStruct EXCEPT
                                 !.table_infos = TargetTable(statement.table_name),
                                 !.set_fields = st.m])

\* The SET loop from its i-th assignment on.  st is the map and whether
\* an unwrap() panicked.
RECURSIVE UpdateAssignments(_, _, _)
UpdateAssignments(assignments, i, st) ==
    IF i > Len(assignments) \/ st.panic THEN st
    ELSE LET key == assignments[i].id[1]
             value == assignments[i].value
             next ==
                 IF value.expr # "Value" THEN st
                 ELSE IF value.v.kind = "Number"
                 THEN LET r == ParseU64(value.v.tok)
                      IN  IF r.ok
                          THEN [st EXCEPT !.m = MapInsert(@, key, MysqlNumber(r.val))]
                          ELSE [st EXCEPT !.panic = TRUE]
                 ELSE IF value.v.kind = "SingleQuotedString"
                 THEN [st EXCEPT !.m = MapInsert(@, key, MysqlString(value.v.s))]
                 ELSE IF value.v.kind = "Boolean"
                 THEN [st EXCEPT !.m = MapInsert(@, key, MysqlBoolean(value.v.b))]
                 ELSE st
         IN  UpdateAssignments(assignments, i + 1, next)

\* UpdateWhereExist with is_none() for is_some()
UpdateWhereAbsent(statement) == statement.selection = None

UpdateWhereExist(statement) == statement.selection # None

UpdateResult(parsed) ==
    IF ~parsed.ok THEN Err
    ELSE IF parsed.statements = <<>> THEN Panic
    ELSE LET statement == parsed.statements[1]
         IN  IF statement.stmt # "Update" THEN Ok(DefaultSqlStruct)
             ELSE LET table_relation == statement.table.relation
                      st == UpdateAssignments(statement.assignments, 1,
                                              [m |-> EmptyMap, panic |-> FALSE])
                  IN  IF st.panic THEN Panic
                      ELSE Ok([DefaultSqlStruct EXCEPT
                                 !.table_infos =
                                     IF table_relation.factor = "Table"
                                     THEN TargetTable(table_relation.name)
                                     ELSE <<>>,
                                 !.set_fields = st.m,
                                 !.where_exist = UpdateWhereExist(statement)])

DeleteWhereExist(statement) == statement.selection # None

DeleteResult(parsed) ==
    IF ~parsed.ok THEN Err
    ELSE IF parsed.statements = <<>> THEN Panic
    ELSE LET statement == parsed.statements[1]
         IN  IF statement.stmt # "Delete" THEN Ok(DefaultSqlStruct)
             ELSE Ok([DefaultSqlStruct EXCEPT
                        !.table_infos = TableInfos(statement.from),
                        !.where_exist = DeleteWhereExist(statement)])

\* for column in columns { set_fields.insert(column.name, MysqlValue::None) }
RECURSIVE CreateColumns(_, _, _)
CreateColumns(columns, i, m) ==
    IF i > Len(columns) THEN m
    ELSE CreateColumns(columns, i + 1, MapInsert(m, columns[i].name, MysqlNone))

\* CreateResult that also lists the column names as projected fields
CreateResultWithFields(parsed) ==
    IF ~parsed.ok THEN Err
    ELSE IF parsed.statements = <<>> THEN Panic
    ELSE LET statement == parsed.statements[1]
         IN  IF statement.stmt # "CreateTable" THEN Ok(DefaultSqlStruct)
             ELSE Ok([DefaultSqlStruct EXCEPT
                        !.table_infos = TargetTable(statement.name),
                        !.get_fields = [i \in 1..Len(statement.columns) |->
                                            statement.columns[i].name],
                        !.set_fields = CreateColumns(statement.columns, 1, EmptyMap)])

CreateResult(parsed) ==
    IF ~parsed.ok THEN Err
    ELSE IF parsed.statements = <<>> THEN Panic
    ELSE LET statement == parsed.statements[1]
         IN  IF statement.stmt # "CreateTable" THEN Ok(DefaultSqlStruct)
             ELSE Ok([DefaultSqlStruct EXCEPT
                        !.table_infos = TargetTable(statement.name),
                        !.set_fields = CreateColumns(statement.columns, 1, EmptyMap)])

(***************************************************************************)
(* Display.  A text is the sequence of the pieces pushed to it; ", " is    *)
(* pushed as the two pieces "," and " ", so that String::pop(), which      *)
(* removes one character, removes one piece wherever the code calls it.    *)
(***************************************************************************)
Pop(text) == IF text = <<>> THEN text ELSE SubSeq(text, 1, Len(text) - 1)

\* Display for TableInfo
TableInfoFmt(table_info) ==
    IF Len(table_info.schema) = 0
    THEN <<"table", ToString(table_info.index), ": ", table_info.table>>
    ELSE <<"table", ToString(table_info.index), ": ", table_info.schema, ".",
           table_info.table>>

\* {:?} of a MysqlValue
MysqlValueDebug(v) ==
    IF v.t = "None" THEN <<"None">>
    ELSE IF v.t = "String" THEN <<"String(\"", v.s, "\")">>
    ELSE IF v.t = "Number"
    THEN <<"Number(">> \o [i \in 1..Len(v.n) |-> ToString(v.n[i])] \o <<")">>
    ELSE <<"Boolean(", IF v.b THEN "true" ELSE "false", ")">>

\* {:?} of an Option<i32>
OptionDebug(o) == IF o = None THEN <<"None">> ELSE <<"Some(", ToString(o[1]), ")">>

RECURSIVE TableInfoStr(_, _, _)
TableInfoStr(table_infos, i, text) ==
    IF i > Len(table_infos) THEN text
    ELSE TableInfoStr(table_infos, i + 1,
                      text \o TableInfoFmt(table_infos[i]) \o <<",", " ">>)

RECURSIVE SelectFieldsStr(_, _, _)
SelectFieldsStr(get_fields, i, text) ==
    IF i > Len(get_fields) THEN text
    ELSE SelectFieldsStr(get_fields, i + 1, text \o <<get_fields[i], ",", " ">>)

\* for (k, v) in &self.set_fields, the map yielding its keys in the order keys
RECURSIVE SetFieldsStr(_, _, _, _)
SetFieldsStr(set_fields, keys, i, text) ==
    IF i > Len(keys) THEN text
    ELSE SetFieldsStr(set_fields, keys, i + 1,
                      text \o <<keys[i], "=">> \o MysqlValueDebug(set_fields[keys[i]])
                           \o <<",", " ">>)

\* for (order_by_field, order_by_value) in &self.order_by_fields
RECURSIVE OrderByFieldsStr(_, _, _, _)
OrderByFieldsStr(order_by_fields, keys, i, text) ==
    IF i > Len(keys) THEN text
    ELSE OrderByFieldsStr(order_by_fields, keys, i + 1,
                          text \o <<keys[i], " ",
                                    IF order_by_fields[keys[i]] THEN "ASC" ELSE "DESC",
                                    ",", " ">>)

\* if s.len() > 1 { s.pop(); s.pop(); } s.push_str("]")
Close(text) == (IF Len(text) > 1 THEN Pop(Pop(text)) ELSE text) \o <<"]">>

\* Display for SqlStruct, set_keys and order_keys being the orders in which
\* the two maps yield their keys.
Fmt(sql_struct, set_keys, order_keys) ==
    <<"table_infos: ">> \o Close(TableInfoStr(sql_struct.table_infos, 1, <<"[">>))
    \o <<", select_fields: ">> \o Close(SelectFieldsStr(sql_struct.get_fields, 1, <<"[">>))
    \o <<", set_fields: ">>
    \o Close(SetFieldsStr(sql_struct.set_fields, set_keys, 1, <<"[">>))
    \o <<", order_by_fields: ">>
    \o Pop(Pop(OrderByFieldsStr(sql_struct.order_by_fields, order_keys, 1, <<>>)))
    \o <<", limit: ">> \o OptionDebug(sql_struct.limit)
    \o <<", offset: ">> \o OptionDebug(sql_struct.offset)
    \o <<", where_exist: ", IF sql_struct.where_exist THEN "true" ELSE "false">>

\* The orders in which a HashMap with the key set S can yield its keys.
\* Every map is built with fresh RandomState keys, so the order is not a
\* function of the contents.
IterationOrders(S) ==
    {f \in [1..Cardinality(S) -> S] : \A i, j \in DOMAIN f : f[i] = f[j] => i = j}

(***************************************************************************)
(* The syntax trees of the external parser, and the bounded sets of        *)
(* inputs the calls are checked on.                                        *)
(***************************************************************************)
Identifier(name) == [expr |-> "Identifier", value |-> name]
ValueExpr(v) == [expr |-> "Value", v |-> v]
BinaryOp == [expr |-> "BinaryOp"]

Number(tok) == [kind |-> "Number", tok |-> tok]
SingleQuotedString(s) == [kind |-> "SingleQuotedString", s |-> s]
Boolean(b) == [kind |-> "Boolean", b |-> b]
Null == [kind |-> "Null"]
Placeholder == [kind |-> "Placeholder"]

UnnamedExpr(e) == [item |-> "UnnamedExpr", expr |-> e]
ExprWithAlias(e, alias) == [item |-> "ExprWithAlias", expr |-> e, alias |-> alias]
Wildcard == [item |-> "Wildcard"]

Table(name, alias) == [factor |-> "Table", name |-> name, alias |-> alias]
Derived == [factor |-> "Derived"]
TableWithJoins(relation) == [relation |-> relation]

OrderByExpr(e, asc) == [expr |-> e, asc |-> asc]
Offset(e) == [value |-> e]

Select(projection, from, selection) ==
    [set |-> "Select", projection |-> projection, from |-> from,
     selection |-> selection]
Values(rows) == [set |-> "Values", rows |-> rows]
SetOperation == [set |-> "SetOperation"]

Query(body, order_by, limit, offset) ==
    [body |-> body, order_by |-> order_by, limit |-> limit, offset |-> offset]

QueryStatement(query) == [stmt |-> "Query", query |-> query]
Insert(table_name, columns, source) ==
    [stmt |-> "Insert", table_name |-> table_name, columns |-> columns,
     source |-> source]
Update(table, assignments, selection) ==
    [stmt |-> "Update", table |-> table, assignments |-> assignments,
     selection |-> selection]
Delete(from, selection) == [stmt |-> "Delete", from |-> from, selection |-> selection]
CreateTable(name, columns) == [stmt |-> "CreateTable", name |-> name, columns |-> columns]
Drop == [stmt |-> "Drop"]

Assignment(id, value) == [id |-> id, value |-> value]
ColumnDef(name) == [name |-> name]

\* What Parser::parse_sql returns.
ParserError == [ok |-> FALSE]
Parsed(statements) == [ok |-> TRUE, statements |-> statements]

\* The decimal token of a small natural number.
RECURSIVE Decimal(_)
Decimal(n) ==
    IF n < 10 THEN <<DigitChars[n + 1]>>
    ELSE Decimal(n \div 10) \o <<DigitChars[(n % 10) + 1]>>

Token(digits) == [i \in 1..Len(digits) |-> DigitChars[digits[i] + 1]]

\* LIMIT and OFFSET literals: in the range of i32, 2147483648, and 1.5
LimitValues == {0, 10, I32_MAX}
LimitTokens ==
    {Decimal(n) : n \in LimitValues}
        \cup {Token(<<2, 1, 4, 7, 4, 8, 3, 6, 4, 8>>), <<"1", ".", "5">>}

\* Numeric literals of INSERT and UPDATE: 7, u64::MAX, u64::MAX + 1, and 1.5
U64Tokens ==
    {Decimal(7), <<"0", "7">>, Token(U64MaxDigits),
     Token(<<1, 8, 4, 4, 6, 7, 4, 4, 0, 7, 3, 7, 0, 9, 5, 5, 1, 6, 1, 6>>),
     <<"1", ".", "5">>}

SelectItems ==
    {UnnamedExpr(Identifier(n)) : n \in Names}
        \cup {ExprWithAlias(Identifier(n), "X") : n \in Names}
        \cup {UnnamedExpr(BinaryOp), ExprWithAlias(BinaryOp, "X"), Wildcard}

TableFactors ==
    {Table(<<"TB1">>, None), Table(<<"TB2">>, Some("t2")),
     Table(<<"DB1", "TB1">>, Some("t1")), Table(<<"C", "DB1", "TB1">>, None),
     Derived}

TablesWithJoins == {TableWithJoins(f) : f \in TableFactors}

OrderByExprs ==
    {OrderByExpr(Identifier(n), asc) : n \in Names,
                                       asc \in {None, Some(TRUE), Some(FALSE)}}
        \cup {OrderByExpr(BinaryOp, None)}

\* WHERE: absent, or an expression of any shape
Selections == {None, Some(BinaryOp)}

BoundExprs ==
    {ValueExpr(Number(t)) : t \in LimitTokens} \cup {ValueExpr(Placeholder), BinaryOp}

Limits == {None} \cup {Some(e) : e \in BoundExprs}
Offsets == {None} \cup {Some(Offset(e)) : e \in BoundExprs}

Present(option) == IF option = None THEN 0 ELSE 1

\* How many items the projection, the FROM list and ORDER BY have, and
\* whether WHERE, LIMIT and OFFSET are there: at most n nodes in all.
SelectShapes(n) ==
    {k \in [1..6 -> 0..n] :
        /\ k[1] + k[2] + k[3] + k[4] + k[5] + k[6] <= n
        /\ k[4] <= 1 /\ k[5] <= 1 /\ k[6] <= 1}

Chosen(options, present) == {x \in options : Present(x) = present}

\* Value expressions of INSERT and UPDATE.  The two further numeric tokens
\* are tried in UPDATE, whose set of statements is the smaller one.
InsertExprs ==
    {ValueExpr(Number(Decimal(7))),
     ValueExpr(Number(Token(<<1, 8, 4, 4, 6, 7, 4, 4, 0, 7, 3, 7, 0, 9, 5, 5, 1, 6, 1, 6>>))),
     ValueExpr(SingleQuotedString("x")), ValueExpr(Boolean(TRUE)),
     ValueExpr(Null), BinaryOp}

UpdateExprs == InsertExprs \cup {ValueExpr(Number(t)) : t \in U64Tokens}

TableNames == {<<"TB1">>, <<"a", "TB1">>, <<"C", "a", "TB1">>}

\* A sequence of values as one row, or cut into two non-empty rows.
Rows(flat) ==
    {<<flat>>} \cup
    {<<SubSeq(flat, 1, i), SubSeq(flat, i + 1, Len(flat))>> : i \in 1..(Len(flat) - 1)}

Assignments ==
    {Assignment(id, v) : id \in {<<"A">>, <<"B">>, <<"B", "A">>}, v \in UpdateExprs}

ColumnDefs == {ColumnDef(n) : n \in Names}

\* What every call may get from the parser besides its own kind of
\* statement: an error, no statement, a statement of another kind.
OtherInputs == {ParserError, Parsed(<<>>), Parsed(<<Drop>>)}

(***************************************************************************)
(* The state machine: main calls one parser function on what the parser    *)
(* made of its statement, and prints what the call returned.               *)
(***************************************************************************)
NoInput == [ok |-> FALSE, statements |-> <<>>]

Init ==
    /\ pc = "call"
    /\ func = ""
    /\ input = NoInput
    /\ result = NoResult
    /\ out = <<>>

Return(name, parsed, r) ==
    /\ pc' = "returned"
    /\ func' = name
    /\ input' = parsed
    /\ result' = r
    /\ out' = <<>>

\* parse_select on a SELECT of at most MaxNodes nodes, or on a query
\* whose body is no plain SELECT (a UNION) with its own ORDER BY and LIMIT
ParseSelect ==
    /\ pc = "call"
    /\ \/ \E parsed \in OtherInputs : Return("SELECT", parsed, SelectResult(parsed))
       \/ \E k \in SelectShapes(MaxNodes) :
            \E p \in [1..k[1] -> SelectItems], f \in [1..k[2] -> TablesWithJoins],
               o \in [1..k[3] -> OrderByExprs], w \in Chosen(Selections, k[4]),
               l \in Chosen(Limits, k[5]), off \in Chosen(Offsets, k[6]) :
                LET parsed == Parsed(<<QueryStatement(Query(Select(p, f, w), o, l, off))>>)
                IN  Return("SELECT", parsed, SelectResult(parsed))
       \/ \E o \in SeqUpTo(OrderByExprs, MaxNodes - 1), l \in Limits :
            LET parsed == Parsed(<<QueryStatement(Query(SetOperation, o, l, None))>>)
            IN  Return("SELECT", parsed, SelectResult(parsed))

\* parse_insert on an INSERT of at most MaxCols columns whose source is
\* VALUES with at most MaxCols value expressions, or a query
ParseInsert ==
    /\ pc = "call"
    /\ \/ \E parsed \in OtherInputs : Return("INSERT", parsed, InsertResult(parsed))
       \/ \E t \in TableNames, c \in SeqUpTo(Names, MaxCols) :
            \/ \E flat \in SeqUpTo(InsertExprs, MaxCols) : \E rows \in Rows(flat) :
                 LET parsed == Parsed(<<Insert(t, c, Query(Values(rows), <<>>, None, None))>>)
                 IN  Return("INSERT", parsed, InsertResult(parsed))
            \/ LET q == Query(Select(<<Wildcard>>, <<>>, None), <<>>, None, None)
                   parsed == Parsed(<<Insert(t, c, q)>>)
               IN  Return("INSERT", parsed, InsertResult(parsed))

\* parse_update on an UPDATE of at most MaxAssign assignments
ParseUpdate ==
    /\ pc = "call"
    /\ \/ \E parsed \in OtherInputs : Return("UPDATE", parsed, UpdateResult(parsed))
       \/ \E t \in TablesWithJoins, a \in SeqUpTo(Assignments, MaxAssign),
             w \in Selections :
            LET parsed == Parsed(<<Update(t, a, w)>>)
            IN  Return("UPDATE", parsed, UpdateResult(parsed))

\* parse_delete on a DELETE from at most MaxNodes tables
ParseDelete ==
    /\ pc = "call"
    /\ \/ \E parsed \in OtherInputs : Return("DELETE", parsed, DeleteResult(parsed))
       \/ \E f \in SeqUpTo(TablesWithJoins, MaxNodes), w \in Selections :
            LET parsed == Parsed(<<Delete(f, w)>>)
            IN  Return("DELETE", parsed, DeleteResult(parsed))

\* parse_create on a CREATE TABLE of at most MaxCols columns
ParseCreate ==
    /\ pc = "call"
    /\ \/ \E parsed \in OtherInputs : Return("CREATE", parsed, CreateResult(parsed))
       \/ \E t \in TableNames, c \in SeqUpTo(ColumnDefs, MaxCols) :
            LET parsed == Parsed(<<CreateTable(t, c)>>)
            IN  Return("CREATE", parsed, CreateResult(parsed))

\* println!("{}", parser_struct).  The text is kept for the model the call
\* returned and for one more model of the same contents (the same statement
\* extracted again): each is rendered from its own maps.
Display ==
    /\ pc = "returned"
    /\ result.outcome = "Ok"
    /\ Len(out) < 2
    /\ \E set_keys \in IterationOrders(DOMAIN result.sql_struct.set_fields),
          order_keys \in IterationOrders(DOMAIN result.sql_struct.order_by_fields) :
          out' = Append(out, Fmt(result.sql_struct, set_keys, order_keys))
    /\ UNCHANGED <<pc, func, input, result>>

Next ==
    \/ ParseSelect
    \/ ParseInsert
    \/ ParseUpdate
    \/ ParseDelete
    \/ ParseCreate

Spec == Init /\ [][Next]_vars

(***************************************************************************)
(* The program as it is: every function parses its own constant statement, *)
(* and main prints what it returns.                                        *)
(***************************************************************************)
\* SELECT ID, NAME, AGE FROM DB1.TB1 as t1, TB2 as t2 WHERE AGE > 20
\* ORDER BY AGE DESC, ID ASC LIMIT 10 OFFSET 2;
SelectSql ==
    Parsed(<<QueryStatement(Query(
        Select(<<UnnamedExpr(Identifier("ID")), UnnamedExpr(Identifier("NAME")),
                 UnnamedExpr(Identifier("AGE"))>>,
               <<TableWithJoins(Table(<<"DB1", "TB1">>, Some("t1"))),
                 TableWithJoins(Table(<<"TB2">>, Some("t2")))>>,
               Some(BinaryOp)),
        <<OrderByExpr(Identifier("AGE"), Some(FALSE)),
          OrderByExpr(Identifier("ID"), Some(TRUE))>>,
        Some(ValueExpr(Number(<<"1", "0">>))),
        Some(Offset(ValueExpr(Number(<<"2">>))))))>>)

\* INSERT INTO a.TB1 (NAME,AGE,FLAG) VALUES('ZHANG_SAN', 20, true);
InsertSql ==
    Parsed(<<Insert(<<"a", "TB1">>, <<"NAME", "AGE", "FLAG">>,
                    Query(Values(<<<<ValueExpr(SingleQuotedString("ZHANG_SAN")),
                                     ValueExpr(Number(<<"2", "0">>)),
                                     ValueExpr(Boolean(TRUE))>>>>),
                          <<>>, None, None))>>)

\* UPDATE TB1 SET NAME = 'name1', FLAG = false WHERE AGE > 10;
UpdateSql ==
    Parsed(<<Update(TableWithJoins(Table(<<"TB1">>, None)),
                    <<Assignment(<<"NAME">>, ValueExpr(SingleQuotedString("name1"))),
                      Assignment(<<"FLAG">>, ValueExpr(Boolean(FALSE)))>>,
                    Some(BinaryOp))>>)

\* DELETE FROM TB1 WHERE AGE > 10;
DeleteSql ==
    Parsed(<<Delete(<<TableWithJoins(Table(<<"TB1">>, None))>>, Some(BinaryOp))>>)

\* CREATE TABLE TB1 (ID INT PRIMARY KEY AUTO_INCREMENT, NAME VARCHAR(20) ...,
\* AGE INT, FLAG BOOLEAN);
CreateSql ==
    Parsed(<<CreateTable(<<"TB1">>, <<ColumnDef("ID"), ColumnDef("NAME"),
                                      ColumnDef("AGE"), ColumnDef("FLAG")>>)>>)

parse_select == pc = "call" /\ Return("SELECT", SelectSql, SelectResult(SelectSql))

parse_insert == pc = "call" /\ Return("INSERT", InsertSql, InsertResult(InsertSql))

parse_update == pc = "call" /\ Return("UPDATE", UpdateSql, UpdateResult(UpdateSql))

parse_delete == pc = "call" /\ Return("DELETE", DeleteSql, DeleteResult(DeleteSql))

parse_create == pc = "call" /\ Return("CREATE", CreateSql, CreateResult(CreateSql))

MainNext ==
    \/ parse_select
    \/ parse_insert
    \/ parse_update
    \/ parse_delete
    \/ parse_create
    \/ Display

SpecMain == Init /\ [][MainNext]_vars

(***************************************************************************)
(* Properties of the extraction and of Display.                            *)
(***************************************************************************)
Model == result.sql_struct

\* the call of f has returned, and what it got is one statement of that kind
Called(f, kind) ==
    /\ pc = "returned"
    /\ func = f
    /\ input.ok
    /\ input.statements # <<>>
    /\ input.statements[1].stmt = kind

Statement == input.statements[1]

Returned(f, kind) == Called(f, kind) /\ result.outcome = "Ok"

IsNumber(e) == e.expr = "Value" /\ e.v.kind = "Number"

IsInteger(e) == IsNumber(e) /\ \A i \in 1..Len(e.v.tok) : IsDigit(e.v.tok[i])

Recognized(e) ==
    e.expr = "Value" /\ e.v.kind \in {"Number", "SingleQuotedString", "Boolean"}

\* the normalized value of a recognized literal
LiteralValue(e) ==
    IF e.v.kind = "Number" THEN MysqlNumber(ParseU64(e.v.tok).val)
    ELSE IF e.v.kind = "SingleQuotedString" THEN MysqlString(e.v.s)
    ELSE MysqlBoolean(e.v.b)

\* numeric tokens that have no value in the target type
NotI32 == {Token(<<2, 1, 4, 7, 4, 8, 3, 6, 4, 8>>), <<"1", ".", "5">>}
NotU64 ==
    {Token(<<1, 8, 4, 4, 6, 7, 4, 4, 0, 7, 3, 7, 0, 9, 5, 5, 1, 6, 1, 6>>),
     <<"1", ".", "5">>}

\* an INSERT of N columns with one row of N values
OneRow ==
    /\ Statement.source.body.set = "Values"
    /\ Len(Statement.source.body.rows) = 1
    /\ Len(Statement.source.body.rows[1]) = Len(Statement.columns)

Row == Statement.source.body.rows[1]

\* C1: in the model of every extraction the positions of the table
\* references are 1, 2, ..., K in clause order.
C1_PositionsContiguous ==
    (pc = "returned" /\ result.outcome = "Ok") =>
        \A i \in 1..Len(Model.table_infos) : Model.table_infos[i].index = i

\* C2: for an INSERT of N columns (here all different) and one row of N
\* values, the mapping holds exactly the columns whose value at the same
\* position is a recognized literal, each bound to that value.
C2_PairwiseBinding ==
    (/\ Returned("INSERT", "Insert")
     /\ OneRow
     /\ \A i, j \in 1..Len(Row) : Statement.columns[i] = Statement.columns[j] => i = j)
    => /\ DOMAIN Model.set_fields =
              {Statement.columns[i] : i \in {j \in 1..Len(Row) : Recognized(Row[j])}}
       /\ \A i \in 1..Len(Row) :
              Recognized(Row[i]) =>
                  Model.set_fields[Statement.columns[i]] = LiteralValue(Row[i])

\* a numeric literal of the statement cannot be converted to its type
BadLimit(expr_option) ==
    expr_option # None /\ IsNumber(expr_option[1]) /\ expr_option[1].v.tok \in NotI32

BadValue(e) == IsNumber(e) /\ e.v.tok \in NotU64

BadInsert ==
    /\ Statement.source.body.set = "Values"
    /\ \E r \in 1..Len(Statement.source.body.rows) :
          \E i \in 1..Len(Statement.source.body.rows[r]) :
              BadValue(Statement.source.body.rows[r][i])

\* C3: when a numeric literal cannot be converted to its target type, the
\* call returns a failure: it never aborts and never returns a model.
C3_FailureReturned ==
    /\ (Called("SELECT", "Query") /\ BadLimit(Statement.query.limit))
           => result.outcome = "Err"
    /\ (Called("SELECT", "Query") /\ Statement.query.offset # None
           /\ BadLimit(Some(Statement.query.offset[1].value)))
           => result.outcome = "Err"
    /\ (Called("INSERT", "Insert") /\ BadInsert) => result.outcome = "Err"
    /\ (Called("UPDATE", "Update")
           /\ \E i \in 1..Len(Statement.assignments) :
                  BadValue(Statement.assignments[i].value))
           => result.outcome = "Err"

\* C4: the extraction of an INSERT whose numeric literals are all in range
\* returns a model, whatever its columns and rows.
C4_InsertCompletes ==
    (Called("INSERT", "Insert") /\ ~BadInsert) => result.outcome = "Ok"

\* what C5 says of one bound: none without the clause, the literal's own
\* value for an integer literal, none for an expression that is no number
BoundAgrees(expr_option, bound) ==
    /\ expr_option = None => bound = None
    /\ (expr_option # None /\ IsInteger(expr_option[1]))
           => /\ bound # None
              /\ bound[1] >= 0
              /\ Decimal(bound[1]) = expr_option[1].v.tok
    /\ (expr_option # None /\ ~IsNumber(expr_option[1])) => bound = None

\* C5: in the model parse_select returns, limit and offset are absent when
\* the clause is absent or no numeric literal, and hold exactly the value
\* of an integer literal.
C5_Pagination ==
    Returned("SELECT", "Query") =>
        /\ BoundAgrees(Statement.query.limit, Model.limit)
        /\ BoundAgrees(IF Statement.query.offset = None THEN None
                       ELSE Some(Statement.query.offset[1].value), Model.offset)

C5_Witness ==
    /\ Returned("SELECT", "Query")
    /\ Statement.query.limit = Some(ValueExpr(Number(Decimal(I32_MAX))))
    /\ Statement.query.offset = Some(Offset(ValueExpr(Number(Decimal(10)))))
    /\ Model.limit = Some(I32_MAX)
    /\ Model.offset = Some(10)

\* C6: two models of equal contents are rendered as the same text.
C6_SameRendering == Len(out) = 2 => out[1] = out[2]

\* j is the last place of its key in a list of keys, and not the only one
LastOfSeveral(keys, j) ==
    /\ \E i \in 1..(j - 1) : keys[i] = keys[j]
    /\ \A i \in (j + 1)..Len(keys) : keys[i] # keys[j]

\* C7: a key processed twice, with recognized values, has one entry, which
\* holds the value of its last occurrence: SET targets, INSERT columns,
\* ORDER BY columns.
C7_LastWriteWins ==
    /\ Returned("UPDATE", "Update") =>
          LET a == Statement.assignments
              keys == [i \in 1..Len(a) |-> a[i].id[1]]
          IN  \A j \in 1..Len(a) :
                  (/\ LastOfSeveral(keys, j)
                   /\ \A i \in 1..j : keys[i] = keys[j] => Recognized(a[i].value))
                  => /\ keys[j] \in DOMAIN Model.set_fields
                     /\ Model.set_fields[keys[j]] = LiteralValue(a[j].value)
    /\ (Returned("INSERT", "Insert") /\ OneRow) =>
          LET keys == Statement.columns
          IN  \A j \in 1..Len(keys) :
                  (/\ LastOfSeveral(keys, j)
                   /\ \A i \in 1..j : keys[i] = keys[j] => Recognized(Row[i]))
                  => /\ keys[j] \in DOMAIN Model.set_fields
                     /\ Model.set_fields[keys[j]] = LiteralValue(Row[j])
    /\ Returned("SELECT", "Query") =>
          LET o == Statement.query.order_by
              bare == {i \in 1..Len(o) : o[i].expr.expr = "Identifier"}
          IN  \A j \in bare :
                  (/\ \E i \in bare : i < j /\ o[i].expr.value = o[j].expr.value
                   /\ \A i \in bare : i > j => o[i].expr.value # o[j].expr.value)
                  => /\ o[j].expr.value \in DOMAIN Model.order_by_fields
                     /\ Model.order_by_fields[o[j].expr.value] = (o[j].asc = Some(TRUE))

\* C8: the flag where_exist of the model of a SELECT, an UPDATE or a DELETE
\* is true exactly when the statement has a WHERE clause.
C8_WhereExist ==
    /\ (Returned("SELECT", "Query") /\ Statement.query.body.set = "Select")
           => Model.where_exist = (Statement.query.body.selection # None)
    /\ Returned("UPDATE", "Update")
           => Model.where_exist = (Statement.selection # None)
    /\ Returned("DELETE", "Delete")
           => Model.where_exist = (Statement.selection # None)

C8_Witness ==
    /\ Returned("UPDATE", "Update")
    /\ Statement.selection # None
    /\ Model.where_exist

\* the places of the projection that are bare column references
BareItems(projection) ==
    {i \in 1..Len(projection) :
        /\ projection[i].item \in {"UnnamedExpr", "ExprWithAlias"}
        /\ projection[i].expr.expr = "Identifier"}

\* C9: get_fields is the column names of the bare column references of the
\* projection, one entry each, in source order.
C9_Projection ==
    (Returned("SELECT", "Query") /\ Statement.query.body.set = "Select") =>
        LET projection == Statement.query.body.projection
            bare == BareItems(projection)
        IN  /\ Len(Model.get_fields) = Cardinality(bare)
            /\ \A i \in bare :
                   Model.get_fields[Cardinality({j \in bare : j <= i})]
                       = projection[i].expr.value

C9_Witness ==
    /\ Returned("SELECT", "Query")
    /\ Statement.query.body.set = "Select"
    /\ Len(Statement.query.body.projection) = 3
    /\ Statement.query.body.projection[2].item = "ExprWithAlias"
    /\ Model.get_fields = <<"B", "A">>

\* C10: every extraction leaves the fields that are not of its kind of
\* statement at their defaults.
C10_Frame ==
    (pc = "returned" /\ result.outcome = "Ok") =>
        /\ func = "DELETE" =>
              /\ Model.get_fields = <<>> /\ Model.set_fields = EmptyMap
              /\ Model.order_by_fields = EmptyMap
              /\ Model.limit = None /\ Model.offset = None
        /\ func \in {"INSERT", "CREATE"} =>
              /\ Model.get_fields = <<>> /\ Model.order_by_fields = EmptyMap
              /\ Model.limit = None /\ Model.offset = None
              /\ Model.where_exist = FALSE
        /\ func = "UPDATE" =>
              /\ Model.get_fields = <<>> /\ Model.order_by_fields = EmptyMap
              /\ Model.limit = None /\ Model.offset = None
        /\ func = "SELECT" => Model.set_fields = EmptyMap

C10_Witness ==
    /\ Returned("CREATE", "CreateTable")
    /\ Len(Model.table_infos) = 1
    /\ DOMAIN Model.set_fields = Names
    /\ Model.get_fields = <<>>
    /\ Model.where_exist = FALSE

====
